---- MODULE Spec2Model ----
(***************************************************************************)
(* Model of the two orchestration scripts of confluence-ai-agent:          *)
(*   conf.py         summarize_software, the aggregation pipeline          *)
(*   src/helper.py   HelpDeskSystem.handle_query, the intake workflow      *)
(* Python strings are sequences of one-character strings, so that lower(), *)
(* strip(), startswith(), endswith(), split() and `in` are computed.       *)
(***************************************************************************)
EXTENDS Integers, Sequences, FiniteSets, TLC

(***************************************************************************)
(* Bounds of the model.                                                    *)
(***************************************************************************)
MaxPages == 2
MaxAtts == 2
MaxImages == 2
\* longest text_content given to the summarizer called on its own
MaxText == 3
\* image attachments of the page of the pool specification
PoolUnits == 6

(***************************************************************************)
(* Python string operations.                                               *)
(***************************************************************************)
UPPER == <<"A","B","C","D","E","F","G","H","I","J","K","L","M","N","O","P","Q","R","S","T","U","V","W","X","Y","Z">>
LOWER == <<"a","b","c","d","e","f","g","h","i","j","k","l","m","n","o","p","q","r","s","t","u","v","w","x","y","z">>

LowerChar(c) ==
    IF \E i \in 1..26 : UPPER[i] = c
    THEN LOWER[CHOOSE i \in 1..26 : UPPER[i] = c]
    ELSE c

\* str.lower()
Lower(s) == [i \in 1..Len(s) |-> LowerChar(s[i])]

\* str.startswith(p)
StartsWith(s, p) == Len(p) <= Len(s) /\ SubSeq(s, 1, Len(p)) = p

\* str.endswith(p)
EndsWith(s, p) == Len(p) <= Len(s) /\ SubSeq(s, Len(s) - Len(p) + 1, Len(s)) = p

\* sub in s
Contains(s, sub) ==
    \E i \in 1..(Len(s) + 1) :
        i + Len(sub) - 1 <= Len(s) /\ SubSeq(s, i, i + Len(sub) - 1) = sub

IsSpace(c) == c \in {" ", "\n"}

\* str.strip()
Strip(s) ==
    IF \A i \in 1..Len(s) : IsSpace(s[i])
    THEN <<>>
    ELSE LET a == CHOOSE i \in 1..Len(s) :
                     ~IsSpace(s[i]) /\ \A j \in 1..(i - 1) : IsSpace(s[j])
             b == CHOOSE i \in 1..Len(s) :
                     ~IsSpace(s[i]) /\ \A j \in (i + 1)..Len(s) : IsSpace(s[j])
         IN SubSeq(s, a, b)

\* Injective sequences over S of length at most n.
RECURSIVE SeqsUpTo(_, _)
SeqsUpTo(S, n) ==
    IF n = 0 THEN {<<>>}
    ELSE LET R == SeqsUpTo(S, n - 1)
         IN R \cup {Append(q, x) : q \in {r \in R : Len(r) = n - 1}, x \in S}

Range(q) == {q[i] : i \in 1..Len(q)}
Injective(q) == \A i, j \in 1..Len(q) : q[i] = q[j] => i = j

(***************************************************************************)
(* conf.py: configuration and formatted strings.                           *)
(* A formatted string is a record of its literal parts and its arguments.  *)
(***************************************************************************)
CONFLUENCE_BASE_URL == <<"h","t","t","p","s",":","/","/","y","o","u","r","-","c","o","m","p","a","n","y",".","a","t","l","a","s","s","i","a","n",".","n","e","t","/","w","i","k","i">>
\* faulty variant: the pool has one worker more
max_workers_Six == 3 + 3
\* line 175
max_workers == 5

ImageExtensions ==
    { <<".","p","n","g">>, <<".","j","p","g">>, <<".","j","p","e","g">>,
      <<".","b","m","p">>, <<".","g","i","f">>, <<".","s","v","g">> }

\* a Python str built by an f-string or returned as a literal
Str(pre, arg, post) == [pre |-> pre, arg |-> arg, post |-> post]
EmptyStr == Str("", <<>>, "")
\* truthiness of a str: non-empty
Truthy(s) == s # EmptyStr

NoResult == Str("<no result>", <<>>, "")
NoPagesMsg(software_name) == Str("No Confluence pages found for '", software_name, "'.")
AnalysisFailed == Str("Image analysis failed.", <<>>, "")
NoDescription == Str("No description available.", <<>>, "")
FailedToAnalyze(image_title) == Str("Failed to analyze image '", image_title, "'.")
NoContent == Str("No content available to summarize.", <<>>, "")
SummaryError == Str("An error occurred while generating the summary.", <<>>, "")

(***************************************************************************)
(* The environment: what the external services can answer.                 *)
(***************************************************************************)
Keywords == { <<"Z","o","o","m">>, <<"J","i","r","a">> }

\* nodes of a body markup: a tag, or a text node
Tag == [tag |-> TRUE, text |-> <<>>]
Text(t) == [tag |-> FALSE, text |-> t]

\* documents of the content API: id, title (possibly absent), body markup
DocPool ==
    { [id |-> "1", has_title |-> TRUE,
       title |-> <<"Z","o","o","m"," ","S","e","t","u","p">>,
       body |-> <<Tag, Text(<<" ","H","i"," ">>), Tag, Text(<<"\n">>),
                  Tag, Text(<<"y","o">>), Tag>>],
      [id |-> "2", has_title |-> FALSE, title |-> <<>>, body |-> <<>>],
      [id |-> "3", has_title |-> TRUE, title |-> <<"T">>,
       body |-> <<Text(<<" ">>)>>] }

\* attachments of the content API: title and _links.download
AttPool ==
    { [title |-> <<"a",".","p","n","g">>, download |-> <<"/","a">>],
      [title |-> <<"B",".","J","P","G">>, download |-> <<"h","t","t","p",":","/","/","h","/","b">>],
      [title |-> <<"n",".","p","d","f">>, download |-> <<"/","n">>] }

PageLists == {q \in SeqsUpTo(DocPool, MaxPages) : Injective(q)}
AttLists == {q \in SeqsUpTo(AttPool, MaxAtts) : Injective(q)}

\* answers of the search call and of the attachment call
SearchOutcomes ==
    {[kind |-> "error", results |-> <<>>]}
        \cup {[kind |-> "ok", results |-> q] : q \in PageLists}
ListOutcomes ==
    {[kind |-> "error", results |-> <<>>]}
        \cup {[kind |-> "ok", results |-> q] : q \in AttLists}
\* answers of the caption service: an error, or a list of caption texts
DescribeOutcomes == {"error", "nocaptions", "emptytext", "text"}
\* answers of the chat completion: an error, or the message content
SummaryOutcomes ==
    { [kind |-> "error", content |-> <<>>],
      [kind |-> "ok", content |-> <<" ","S","u","m","\n">>],
      [kind |-> "ok", content |-> <<" ">>] }

\* the caption the service gives for the bytes downloaded from a link
CaptionOf(content) == Str("caption of ", content, "")

(***************************************************************************)
(* src/helper.py: string constants and the answers of the language model.  *)
(***************************************************************************)
\* raw answers of the classification chain
ClassificationTexts ==
    { <<"C","a","t","e","g","o","r","y",":"," ","P","a","s","s","w","o","r","d"," ","R","e","s","e","t","\n","M","i","s","s","i","n","g",":"," ","N","o","n","e">>,
      <<" ","c","a","t","e","g","o","r","y",":"," ","V","D","I"," ","R","e","s","o","u","r","c","e"," ","I","n","c","r","e","a","s","e","\n","M","I","S","S","I","N","G",":"," "," ","n","o","n","e"," ","\n">>,
      <<"C","a","t","e","g","o","r","y",":"," ","P","a","s","s","w","o","r","d"," ","R","e","s","e","t","\n","M","i","s","s","i","n","g",":"," ","u","s","e","r"," ","i","d">>,
      <<"C","a","t","e","g","o","r","y",":"," ","O","t","h","e","r"," ","I","T"," ","S","u","p","p","o","r","t">>,
      <<"M","i","s","s","i","n","g",":"," ","N","o","n","e">>,
      <<"C","a","t","e","g","o","r","y",":"," ","P","a","s","s","w","o","r","d"," ","R","e","s","e","t","s">>,
      <<>>,
      <<"C","a","t","e","g","o","r","y",":"," ","P","a","s","s","w","o","r","d"," ","R","e","s","e","t","\n","M","i","s","s","i","n","g",":"," ","N","o","n","e",".">>,
      <<"C","a","t","e","g","o","r","y",":"," ","p","r","i","n","t","e","r","\n","M","i","s","s","i","n","g",":"," ","N","O","N","E">>,
      <<"H","i","\n"," ","M","i","s","s","i","n","g",":"," ","i","d","\n","C","a","t","e","g","o","r","y",":","p","a","s","s","w","o","r","d"," ","r","e","s","e","t">>,
      <<"M","i","s","s","i","n","g",":"," ","i","d","\n","M","i","s","s","i","n","g",":"," ","N","o","n","e","\n","C","a","t","e","g","o","r","y",":"," ","a",":","b">>,
      <<"C","a","t","e","g","o","r","y",":"," ","V","D","I"," ","R","e","s","o","u","r","c","e"," ","I","n","c","r","e","a","s","e","\n","M","i","s","s","i","n","g",":">> }

\* raw answers of the verification chain
VerificationTexts ==
    { <<"V","e","r","i","f","i","e","d">>,
      <<" ","v","e","r","i","f","i","e","d"," ","\n">>,
      <<"S","o","m","e"," ","i","n","f","o"," ","i","s"," ","m","i","s","s","i","n","g">>,
      <<"M","I","S","S","I","N","G",":"," ","i","d">>,
      <<"N","o","t","h","i","n","g"," ","i","s"," ","M","i","s","s","i","n","g"," ","v","s","."," ","l","a","s","t"," ","t","i","m","e">>,
      <<>>,
      <<"T","h","e"," ","u","s","e","r"," ","i","d"," ","i","s"," ","a","b","s","e","n","t">>,
      <<"m","i","s","s"," ","i","n","g">> }

\* raw answers of the final summary chain
FinalSummaryTexts ==
    { <<" ","R","e","p","o","r","t","\n">>,
      <<>> }

S_none == <<"n","o","n","e">>
S_missing == <<"m","i","s","s","i","n","g">>
S_category_colon == <<"c","a","t","e","g","o","r","y",":">>
S_missing_colon == <<"m","i","s","s","i","n","g",":">>
S_password_reset == <<"p","a","s","s","w","o","r","d"," ","r","e","s","e","t">>
S_vdi_resource_increase == <<"v","d","i"," ","r","e","s","o","u","r","c","e"," ","i","n","c","r","e","a","s","e">>
S_Other_IT_Support == <<"O","t","h","e","r"," ","I","T"," ","S","u","p","p","o","r","t">>
S_None == <<"N","o","n","e">>

\* an answer of an LLMChain.run call: an exception, or a text
ChainOutcomes(texts) ==
    {[kind |-> "error", text |-> <<>>]} \cup {[kind |-> "ok", text |-> t] : t \in texts}

\* the user's request; the workflow only passes it on
UserQuery == <<"r","e","s","e","t"," ","m","y"," ","p","w">>

VARIABLES
    software_name,  \* the keyword of the run
    pc,             \* position of summarize_software
    pages,          \* search_confluence's result
    pageIdx,        \* index of the page of the for loop
    attachments,    \* get_page_attachments' result for the current page
    attIdx,         \* index of the attachment of the submit loop
    units,          \* per page, the submitted futures in submission order
    collecting,     \* as_completed has been called for the current page
    finished,       \* futures as_completed found finished when called
    waiter,         \* futures completed since, in completion order
    yielded,        \* futures as_completed has yielded for the current page
    combined_text_parts, \* the corpus
    origin,         \* ghost: for each corpus entry, <<page, unit>> (unit 0: text)
    completed,      \* ghost: per page, the units in completion order
    snapshot,       \* ghost: per page, the units finished when as_completed was called
    searchOutcome,  \* ghost: the answer of the search call
    searchCalls,    \* ghost: number of search calls
    listCalls,      \* ghost: the pages whose attachments were listed, in call order
    summarizeCalls, \* ghost: number of chat completion calls
    summarizeInput, \* ghost: the text handed to summarize_with_azure_openai
    result          \* summarize_software's return value

pvars == <<software_name, pc, pages, pageIdx, attachments, attIdx, units,
           collecting, finished, waiter, yielded, combined_text_parts, origin,
           completed, snapshot, searchOutcome, searchCalls, listCalls,
           summarizeCalls, summarizeInput, result>>

VARIABLES
    hd_pc,                   \* position of handle_query
    classification_response, \* process_query's return value
    category, missing,       \* parse_classification_response's result
    verification_outcome,    \* verify_request's return value
    resolution,              \* the routed handler's response
    hd_trace,                \* ghost: the stages the run has been through
    hd_error,                \* ghost: the stages whose chain call raised
    classifyCalls, verifyCalls, passwordCalls, vdiCalls, finalCalls,
                             \* ghost: calls made to each collaborator
    hd_result                \* handle_query's return value

hvars == <<hd_pc, classification_response, category, missing,
           verification_outcome, resolution, hd_trace, hd_error, classifyCalls,
           verifyCalls, passwordCalls, vdiCalls, finalCalls, hd_result>>

vars == <<pvars, hvars>>

(***************************************************************************)
(* conf.py: leaf operations.  Each returns [raised, value]: raised is TRUE *)
(* when the call propagates an exception to its caller.                    *)
(***************************************************************************)
Return(v) == [raised |-> FALSE, value |-> v]
Raise == [raised |-> TRUE, value |-> <<>>]

\* "\n".join(lines)
RECURSIVE JoinLines(_)
JoinLines(lines) ==
    IF Len(lines) = 0 THEN <<>>
    ELSE IF Len(lines) = 1 THEN lines[1]
    ELSE lines[1] \o <<"\n">> \o JoinLines(Tail(lines))

\* html_to_text: the stripped, non-empty text nodes, joined by newlines
html_to_text(body) ==
    LET stripped == [i \in 1..Len(body) |->
                        IF body[i].tag THEN <<>> ELSE Strip(body[i].text)]
        NonEmpty(t) == t # <<>>
    IN JoinLines(SelectSeq(stripped, NonEmpty))

\* faulty variant: the except branch of search_confluence re-raises
search_confluence_Raises(outcome) ==
    IF outcome.kind = "error" THEN Raise ELSE Return(outcome.results)

search_confluence(outcome) ==
    IF outcome.kind = "error" THEN Return(<<>>) ELSE Return(outcome.results)

\* faulty variant: the except branch of get_page_attachments re-raises
get_page_attachments_Raises(outcome) ==
    IF outcome.kind = "error" THEN Raise ELSE Return(outcome.results)

get_page_attachments(outcome) ==
    IF outcome.kind = "error" THEN Return(<<>>) ELSE Return(outcome.results)

analyze_image(content, outcome) ==
    CASE outcome = "error" -> Return(AnalysisFailed)
      [] outcome = "nocaptions" -> Return(NoDescription)
      [] outcome = "emptytext" -> Return(EmptyStr)
      [] OTHER -> Return(CaptionOf(content))

\* faulty variant: download_and_analyze_image lets the exception escape
download_failed_Raises(image_title) == Raise

\* faulty variant: the except branch returns analyze_image's sentinel
download_failed_Generic(image_title) == Return(AnalysisFailed)

\* the except branch of download_and_analyze_image
download_failed(image_title) == Return(FailedToAnalyze(image_title))

\* lines 177-178: the attachment is an image
IsImage(att) ==
    \E e \in ImageExtensions : EndsWith(Lower(att.title), e)

\* lines 179-181: the download link handed to the unit
ResolveLink(att) ==
    IF att.download # <<>> /\ ~StartsWith(att.download, <<"h","t","t","p">>)
    THEN CONFLUENCE_BASE_URL \o att.download
    ELSE att.download


\* lines 208-214: the value of a unit's future, from the answers of the
\* download and of the caption service
download_and_analyze_image(download_link, image_title, dlOut, descOut) ==
    IF dlOut = "fail"
    THEN download_failed(image_title)
    ELSE LET r == analyze_image(download_link, descOut)
         IN IF r.raised THEN download_failed(image_title) ELSE r

\* session.get on an empty link fails before any request is sent
DownloadOutcomes(download_link) ==
    IF download_link = <<>> THEN {"fail"} ELSE {"ok", "fail"}

(***************************************************************************)
(* conf.py: the corpus.  An entry is the result of one of the two          *)
(* f-strings of summarize_software:                                        *)
(*   page   "Page Title: {title}\n\nContent:\n{text}\n"          line 170  *)
(*   image  "Image '{title}' described as: {desc}"               line 193  *)
(* and big_content puts a separator entry "\n\n" between them.             *)
(***************************************************************************)
PageBlock(page_title, plain_text) ==
    [kind |-> "page", title |-> page_title, text |-> plain_text, desc |-> EmptyStr]
ImageBlock(image_title, image_description) ==
    [kind |-> "image", title |-> image_title, text |-> <<>>, desc |-> image_description]
Separator == [kind |-> "sep", title |-> <<>>, text |-> <<>>, desc |-> EmptyStr]

\* line 167: page.get("title", "Untitled")
PageTitle(page) ==
    IF page.has_title THEN page.title ELSE <<"U","n","t","i","t","l","e","d">>

\* faulty variant: the block is inserted at the front of the list
AppendPart_Prepend(parts, block) == <<block>> \o parts

\* faulty variant: the list is overwritten with the new block
AppendPart_Replace(parts, block) == <<block>>

\* list.append
AppendPart(parts, block) == Append(parts, block)

\* faulty variant: the parts are concatenated without a separator
Join_NoSeparator(parts) == parts

\* line 199: "\n\n".join(combined_text_parts)
RECURSIVE Join(_)
Join(parts) ==
    IF Len(parts) = 0 THEN <<>>
    ELSE IF Len(parts) = 1 THEN parts
    ELSE <<parts[1], Separator>> \o Join(Tail(parts))

\* line 121: not text_content.strip()
BlankEntry(e) ==
    CASE e.kind = "sep" -> TRUE
      [] e.kind = "page" -> FALSE   \* "Page Title: " is not whitespace
      [] OTHER -> FALSE             \* "Image '" is not whitespace

\* faulty variant: only the empty text counts as blank
Blank_EmptyOnly(text_content) == Len(text_content) = 0

\* line 121: not text_content.strip()
Blank(text_content) == \A i \in 1..Len(text_content) : BlankEntry(text_content[i])

\* lines 117-148; the second component tells whether the service was called
summarize_with_azure_openai(text_content, outcome) ==
    IF Blank(text_content) THEN <<Return(NoContent), FALSE>>
    ELSE IF outcome.kind = "error" THEN <<Return(SummaryError), TRUE>>
    ELSE <<Return(Str("", Strip(outcome.content), "")), TRUE>>

(***************************************************************************)
(* conf.py: summarize_software.                                            *)
(***************************************************************************)
\* faulty variant: the early return of line 160 is never taken
NoPages_Never(p) == FALSE

\* line 159: not pages
NoPages(p) == Len(p) = 0

\* line 183: a submitted future
NewUnit(att) ==
    [title |-> att.title, link |-> ResolveLink(att), state |-> "queued",
     dlCalls |-> 0, descCalls |-> 0, dlOut |-> "none", descOut |-> "none",
     raised |-> FALSE, value |-> EmptyStr]

\* faulty variant: every future is given the title of the last submitted attachment
ImageTitle_Last(us, u) == us[Len(us)].title

\* line 188: image_tasks[future]
ImageTitle(us, u) == us[u].title

\* units of a page that a worker is executing
Running(us) == {u \in 1..Len(us) : us[u].state \in {"download", "describe"}}

\* faulty variant: the page is left without waiting for its futures
PoolDrained_NoWait(us, y) == TRUE

\* lines 187 and 175: the as_completed loop ends when every future has been
\* yielded, and leaving the with block waits for every worker
PoolDrained(us, y) ==
    /\ y = 1..Len(us)
    /\ \A u \in 1..Len(us) : us[u].state = "done"

\* image attachments submitted so far in the run
RECURSIVE Submitted(_)
Submitted(us) == IF Len(us) = 0 THEN 0 ELSE Len(Head(us)) + Submitted(Tail(us))

\* image attachments of an attachment list
Images(atts) == Len(SelectSeq(atts, IsImage))

\* the help desk has received its query and has not started
HelpDeskInit ==
    /\ hd_pc = "classify"
    /\ classification_response = <<>>
    /\ category = <<>>
    /\ missing = <<>>
    /\ verification_outcome = <<>>
    /\ resolution = EmptyStr
    /\ hd_trace = <<"Received">>
    /\ hd_error = <<>>
    /\ classifyCalls = 0
    /\ verifyCalls = 0
    /\ passwordCalls = 0
    /\ vdiCalls = 0
    /\ finalCalls = 0
    /\ hd_result = NoResult

Init ==
    /\ HelpDeskInit
    /\ software_name \in Keywords
    /\ pc = "search"
    /\ pages = <<>>
    /\ pageIdx = 0
    /\ attachments = <<>>
    /\ attIdx = 0
    /\ units = <<>>
    /\ collecting = FALSE
    /\ finished = {}
    /\ waiter = <<>>
    /\ yielded = {}
    /\ combined_text_parts = <<>>
    /\ origin = <<>>
    /\ completed = <<>>
    /\ snapshot = <<>>
    /\ searchOutcome = [kind |-> "none", results |-> <<>>]
    /\ searchCalls = 0
    /\ listCalls = <<>>
    /\ summarizeCalls = 0
    /\ summarizeInput = <<>>
    /\ result = NoResult

\* lines 158-162
Search ==
    /\ pc = "search"
    /\ \E o \in SearchOutcomes :
        LET r == search_confluence(o) IN
        /\ searchCalls' = searchCalls + 1
        /\ searchOutcome' = o
        /\ IF r.raised
           THEN /\ pc' = "aborted"
                /\ UNCHANGED <<pages, pageIdx, result>>
           ELSE /\ pages' = r.value
                /\ IF NoPages(r.value)
                   THEN /\ result' = NoPagesMsg(software_name)
                        /\ pc' = "done"
                        /\ UNCHANGED pageIdx
                   ELSE /\ pc' = IF Len(r.value) = 0 THEN "summarize" ELSE "page"
                        /\ pageIdx' = 1
                        /\ UNCHANGED result
    /\ UNCHANGED <<hvars, software_name, snapshot, attachments, attIdx, units, collecting,
                   finished, waiter, yielded, combined_text_parts, origin,
                   completed, listCalls, summarizeCalls, summarizeInput>>

\* lines 165-175: the text block of the page and its attachment list
ProcessPage ==
    /\ pc = "page"
    /\ pageIdx <= Len(pages)
    /\ \E o \in ListOutcomes :
        LET page == pages[pageIdx]
            r == get_page_attachments(o) IN
        /\ Submitted(units) + Images(o.results) <= MaxImages
        /\ combined_text_parts' =
               AppendPart(combined_text_parts,
                          PageBlock(PageTitle(page), html_to_text(page.body)))
        /\ origin' = Append(origin, <<pageIdx, 0>>)
        /\ listCalls' = Append(listCalls, pageIdx)
        /\ IF r.raised
           THEN /\ pc' = "aborted"
                /\ UNCHANGED <<attachments, attIdx, units, completed>>
           ELSE /\ attachments' = r.value
                /\ attIdx' = 1
                /\ units' = Append(units, <<>>)
                /\ completed' = Append(completed, <<>>)
                /\ pc' = "submit"
    /\ collecting' = FALSE
    /\ finished' = {}
    /\ waiter' = <<>>
    /\ yielded' = {}
    /\ UNCHANGED <<hvars, software_name, snapshot, pages, pageIdx, searchOutcome, searchCalls,
                   summarizeCalls, summarizeInput, result>>

\* lines 176-184: one iteration of the submit loop
Submit ==
    /\ pc = "submit"
    /\ attIdx <= Len(attachments)
    /\ LET att == attachments[attIdx] IN
        units' = IF IsImage(att)
                 THEN [units EXCEPT ![pageIdx] = Append(@, NewUnit(att))]
                 ELSE units
    /\ attIdx' = attIdx + 1
    /\ UNCHANGED <<hvars, software_name, snapshot, pc, pages, pageIdx, attachments, collecting,
                   finished, waiter, yielded, combined_text_parts, origin,
                   completed, searchOutcome, searchCalls, listCalls,
                   summarizeCalls, summarizeInput, result>>

\* line 187: as_completed is called; the futures already finished are
\* collected in a set, the others are awaited
CallAsCompleted ==
    /\ pc = "submit"
    /\ attIdx > Len(attachments)
    /\ collecting' = TRUE
    /\ finished' = {u \in 1..Len(units[pageIdx]) : units[pageIdx][u].state = "done"}
    /\ waiter' = <<>>
    /\ snapshot' = Append(snapshot, finished')
    /\ pc' = "collect"
    /\ UNCHANGED <<hvars, software_name, pages, pageIdx, attachments, attIdx, units,
                   yielded, combined_text_parts, origin, completed,
                   searchOutcome, searchCalls, listCalls, summarizeCalls,
                   summarizeInput, result>>

\* a worker of the pool takes the oldest queued unit and starts its download
StartUnit(p, u) ==
    /\ units[p][u].state = "queued"
    /\ \A v \in 1..(u - 1) : units[p][v].state # "queued"
    /\ Cardinality(Running(units[p])) < max_workers
    /\ units' = [units EXCEPT ![p][u].state = "download", ![p][u].dlCalls = @ + 1]
    /\ UNCHANGED <<hvars, software_name, snapshot, pc, pages, pageIdx, attachments, attIdx,
                   collecting, finished, waiter, yielded, combined_text_parts,
                   origin, completed, searchOutcome, searchCalls, listCalls,
                   summarizeCalls, summarizeInput, result>>

\* the future of unit u of page p is set: it is finished, and as_completed's
\* waiter is told when it is waiting
Finish(p, u, dlOut, descOut) ==
    LET un == units[p][u]
        r == download_and_analyze_image(un.link, un.title, dlOut, descOut) IN
    /\ units' = [units EXCEPT ![p][u] =
                    [un EXCEPT !.state = "done", !.dlOut = dlOut,
                               !.descOut = descOut, !.raised = r.raised,
                               !.value = IF r.raised THEN EmptyStr ELSE r.value]]
    /\ completed' = [completed EXCEPT ![p] = Append(@, u)]
    /\ waiter' = IF collecting /\ p = pageIdx THEN Append(waiter, u) ELSE waiter

\* faulty variant: a failed download is tried a second time
DownloadReturns_Retry(p, u) ==
    /\ units[p][u].state = "download"
    /\ \E o \in DownloadOutcomes(units[p][u].link) :
        IF o = "ok"
        THEN /\ units' = [units EXCEPT ![p][u].state = "describe",
                                       ![p][u].dlOut = "ok",
                                       ![p][u].descCalls = @ + 1]
             /\ UNCHANGED <<completed, waiter>>
        ELSE IF units[p][u].dlCalls < 2
        THEN /\ units' = [units EXCEPT ![p][u].dlCalls = @ + 1]
             /\ UNCHANGED <<completed, waiter>>
        ELSE Finish(p, u, "fail", "none")
    /\ UNCHANGED <<hvars, software_name, snapshot, pc, pages, pageIdx,
                   attachments, attIdx, collecting, finished, yielded,
                   combined_text_parts, origin, searchOutcome, searchCalls,
                   listCalls, summarizeCalls, summarizeInput, result>>

\* lines 209-210: the download answers
DownloadReturns(p, u) ==
    /\ units[p][u].state = "download"
    /\ \E o \in DownloadOutcomes(units[p][u].link) :
        IF o = "ok"
        THEN /\ units' = [units EXCEPT ![p][u].state = "describe",
                                       ![p][u].dlOut = "ok",
                                       ![p][u].descCalls = @ + 1]
             /\ UNCHANGED <<completed, waiter>>
        ELSE Finish(p, u, "fail", "none")
    /\ UNCHANGED <<hvars, software_name, snapshot, pc, pages, pageIdx, attachments, attIdx,
                   collecting, finished, yielded, combined_text_parts, origin,
                   searchOutcome, searchCalls, listCalls, summarizeCalls,
                   summarizeInput, result>>

\* lines 211 and 107-115: the caption service answers
DescribeReturns(p, u) ==
    /\ units[p][u].state = "describe"
    /\ \E o \in DescribeOutcomes : Finish(p, u, "ok", o)
    /\ UNCHANGED <<hvars, software_name, snapshot, pc, pages, pageIdx, attachments, attIdx,
                   collecting, finished, yielded, combined_text_parts, origin,
                   searchOutcome, searchCalls, listCalls, summarizeCalls,
                   summarizeInput, result>>

\* lines 187-196: as_completed yields a future and the loop body handles it.
\* The futures found finished at the call come first, in the iteration order
\* of a set; the others follow in the order they finish.
Collect ==
    /\ pc = "collect"
    /\ \E u \in 1..Len(units[pageIdx]) :
        /\ IF finished # {}
           THEN /\ u \in finished
                /\ finished' = finished \ {u}
                /\ UNCHANGED waiter
           ELSE /\ waiter # <<>>
                /\ u = Head(waiter)
                /\ waiter' = Tail(waiter)
                /\ UNCHANGED finished
        /\ yielded' = yielded \cup {u}
        /\ LET un == units[pageIdx][u]
               image_title == ImageTitle(units[pageIdx], u) IN
            IF ~un.raised /\ Truthy(un.value)
            THEN /\ combined_text_parts' =
                        AppendPart(combined_text_parts, ImageBlock(image_title, un.value))
                 /\ origin' = Append(origin, <<pageIdx, u>>)
            ELSE UNCHANGED <<combined_text_parts, origin>>
    /\ UNCHANGED <<hvars, software_name, snapshot, pc, pages, pageIdx, attachments, attIdx,
                   units, collecting, completed, searchOutcome, searchCalls,
                   listCalls, summarizeCalls, summarizeInput, result>>

\* the as_completed loop and the with block end; next page, or line 198
ExitPool ==
    /\ pc = "collect"
    /\ PoolDrained(units[pageIdx], yielded)
    /\ pageIdx' = pageIdx + 1
    /\ pc' = IF pageIdx + 1 > Len(pages) THEN "summarize" ELSE "page"
    /\ UNCHANGED <<hvars, software_name, snapshot, pages, attachments, attIdx, units,
                   collecting, finished, waiter, yielded, combined_text_parts,
                   origin, completed, searchOutcome, searchCalls, listCalls,
                   summarizeCalls, summarizeInput, result>>

\* lines 199-202
Summarize ==
    /\ pc = "summarize"
    /\ \E o \in SummaryOutcomes :
        LET big_content == Join(combined_text_parts)
            rc == summarize_with_azure_openai(big_content, o) IN
        /\ summarizeInput' = big_content
        /\ summarizeCalls' = IF rc[2] THEN summarizeCalls + 1 ELSE summarizeCalls
        /\ IF rc[1].raised
           THEN pc' = "aborted" /\ UNCHANGED result
           ELSE pc' = "done" /\ result' = rc[1].value
    /\ UNCHANGED <<hvars, software_name, snapshot, pages, pageIdx, attachments, attIdx, units,
                   collecting, finished, waiter, yielded, combined_text_parts,
                   origin, completed, searchOutcome, searchCalls, listCalls>>

Worker ==
    \E p \in 1..Len(units) : \E u \in 1..Len(units[p]) :
        \/ StartUnit(p, u)
        \/ DownloadReturns(p, u)
        \/ DescribeReturns(p, u)

Next ==
    \/ Search
    \/ ProcessPage
    \/ Submit
    \/ CallAsCompleted
    \/ Worker
    \/ Collect
    \/ ExitPool
    \/ Summarize

Spec == Init /\ [][Next]_vars

(***************************************************************************)
(* src/helper.py: HelpDeskSystem.                                          *)
(***************************************************************************)
\* str.splitlines()
RECURSIVE SplitLines(_)
SplitLines(s) ==
    IF Len(s) = 0 THEN <<>>
    ELSE IF \E i \in 1..Len(s) : s[i] = "\n"
    THEN LET i == CHOOSE k \in 1..Len(s) :
                     s[k] = "\n" /\ \A j \in 1..(k - 1) : s[j] # "\n"
         IN <<SubSeq(s, 1, i - 1)>> \o SplitLines(SubSeq(s, i + 1, Len(s)))
    ELSE <<s>>

\* line.split(":", 1)[1], for a line that contains a colon
AfterColon(line) ==
    LET i == CHOOSE k \in 1..Len(line) :
                 line[k] = ":" /\ \A j \in 1..(k - 1) : line[j] # ":"
    IN SubSeq(line, i + 1, Len(line))

\* lines 113-117: the loop of parse_classification_response over the lines
RECURSIVE ParseLines(_, _, _)
ParseLines(lines, cat, mis) ==
    IF Len(lines) = 0 THEN <<cat, mis>>
    ELSE LET line == Head(lines) IN
         IF StartsWith(Lower(line), S_category_colon)
         THEN ParseLines(Tail(lines), Strip(AfterColon(line)), mis)
         ELSE IF StartsWith(Lower(line), S_missing_colon)
         THEN ParseLines(Tail(lines), cat, Strip(AfterColon(line)))
         ELSE ParseLines(Tail(lines), cat, mis)

\* faulty variant: category and missing start empty
parse_classification_response_NoDefault(response) ==
    ParseLines(SplitLines(response), <<>>, <<>>)

\* lines 105-118
parse_classification_response(response) ==
    ParseLines(SplitLines(response), S_Other_IT_Support, S_None)

\* faulty variant: an exception of the chain is swallowed
RunChain_Swallow(outcome) ==
    IF outcome.kind = "error" THEN Return(<<>>) ELSE Return(Strip(outcome.text))

\* lines 41-43, 45-49 and 69-71: the chain's answer, stripped
RunChain(outcome) ==
    IF outcome.kind = "error" THEN Raise ELSE Return(Strip(outcome.text))

\* faulty variant: a value that only starts with "none" counts as none
MissingInformation_Prefix(mis) == ~StartsWith(Lower(mis), S_none)

\* line 128
MissingInformation(mis) == Lower(mis) # S_none

\* faulty variant: the substring test is case-sensitive
VerificationFailed_CaseSensitive(outcome) == Contains(outcome, S_missing)

\* faulty variant: the verification outcome is not examined
VerificationFailed_Never(outcome) == FALSE

\* line 135
VerificationFailed(outcome) == Contains(Lower(outcome), S_missing)

\* lines 129 and 136
MissingInformationMsg(mis) ==
    Str("Missing Information: ", mis, ". Please provide the missing details and try again.")
VerificationIssueMsg(outcome) ==
    Str("Verification Issue: ", outcome, ". Please provide complete details.")

\* lines 77-91 and 144-147
PasswordResetResponse ==
    Str("Password reset request has been processed. A reset link has been sent to your registered email address.", <<>>, "")
VDIResponse ==
    Str("VDI resource increase request has been processed. Your VDI resources will be updated shortly.", <<>>, "")
ForwardedResponse ==
    Str("Your request has been forwarded to our general IT support team. They will get back to you shortly.", <<>>, "")

\* faulty variant: the category is compared with its case
Route_CaseSensitive(cat) ==
    IF cat = S_password_reset THEN "password"
    ELSE IF cat = S_vdi_resource_increase THEN "vdi"
    ELSE "other"

\* lines 139-147: "password", "vdi" or "other"
Route(cat) ==
    IF Lower(cat) = S_password_reset THEN "password"
    ELSE IF Lower(cat) = S_vdi_resource_increase THEN "vdi"
    ELSE "other"

\* lines 122-129
Classify ==
    /\ hd_pc = "classify"
    /\ \E o \in ChainOutcomes(ClassificationTexts) :
        LET r == RunChain(o) IN
        /\ classifyCalls' = classifyCalls + 1
        /\ hd_error' = IF o.kind = "error" THEN Append(hd_error, "classify") ELSE hd_error
        /\ IF r.raised
           THEN /\ hd_pc' = "aborted"
                /\ UNCHANGED <<classification_response, category, missing,
                               hd_trace, hd_result>>
           ELSE LET parsed == parse_classification_response(r.value) IN
                /\ classification_response' = r.value
                /\ category' = parsed[1]
                /\ missing' = parsed[2]
                /\ IF MissingInformation(parsed[2])
                   THEN /\ hd_result' = MissingInformationMsg(parsed[2])
                        /\ hd_trace' = hd_trace \o <<"Classified", "MissingInfo">>
                        /\ hd_pc' = "done"
                   ELSE /\ hd_trace' = Append(hd_trace, "Classified")
                        /\ hd_pc' = "verify"
                        /\ UNCHANGED hd_result
    /\ UNCHANGED <<pvars, verification_outcome, resolution, verifyCalls,
                   passwordCalls, vdiCalls, finalCalls>>

\* lines 132-136
Verify ==
    /\ hd_pc = "verify"
    /\ \E o \in ChainOutcomes(VerificationTexts) :
        LET r == RunChain(o) IN
        /\ verifyCalls' = verifyCalls + 1
        /\ hd_error' = IF o.kind = "error" THEN Append(hd_error, "verify") ELSE hd_error
        /\ IF r.raised
           THEN /\ hd_pc' = "aborted"
                /\ UNCHANGED <<verification_outcome, hd_trace, hd_result>>
           ELSE /\ verification_outcome' = r.value
                /\ IF VerificationFailed(r.value)
                   THEN /\ hd_result' = VerificationIssueMsg(r.value)
                        /\ hd_trace' = hd_trace \o <<"Verified", "VerificationFailed">>
                        /\ hd_pc' = "done"
                   ELSE /\ hd_trace' = Append(hd_trace, "Verified")
                        /\ hd_pc' = "route"
                        /\ UNCHANGED hd_result
    /\ UNCHANGED <<pvars, classification_response, category, missing,
                   resolution, classifyCalls, passwordCalls, vdiCalls,
                   finalCalls>>

\* lines 139-147
RouteRequest ==
    /\ hd_pc = "route"
    /\ LET handler == Route(category) IN
        /\ resolution' = CASE handler = "password" -> PasswordResetResponse
                           [] handler = "vdi" -> VDIResponse
                           [] OTHER -> ForwardedResponse
        /\ passwordCalls' = IF handler = "password" THEN passwordCalls + 1 ELSE passwordCalls
        /\ vdiCalls' = IF handler = "vdi" THEN vdiCalls + 1 ELSE vdiCalls
    /\ hd_trace' = hd_trace \o <<"Routed", "Resolved">>
    /\ hd_pc' = "summary"
    /\ UNCHANGED <<pvars, classification_response, category, missing,
                   verification_outcome, hd_error, classifyCalls,
                   verifyCalls, finalCalls, hd_result>>

\* lines 150-151
FinalSummary ==
    /\ hd_pc = "summary"
    /\ \E o \in ChainOutcomes(FinalSummaryTexts) :
        LET r == RunChain(o) IN
        /\ finalCalls' = finalCalls + 1
        /\ hd_error' = IF o.kind = "error" THEN Append(hd_error, "summary") ELSE hd_error
        /\ IF r.raised
           THEN /\ hd_pc' = "aborted"
                /\ UNCHANGED <<hd_trace, hd_result>>
           ELSE /\ hd_result' = Str("", r.value, "")
                /\ hd_trace' = Append(hd_trace, "Summarized")
                /\ hd_pc' = "done"
    /\ UNCHANGED <<pvars, classification_response, category, missing,
                   verification_outcome, resolution, classifyCalls,
                   verifyCalls, passwordCalls, vdiCalls>>

HDInit ==
    /\ Init
    /\ software_name = <<"Z","o","o","m">>

HDNext ==
    \/ Classify
    \/ Verify
    \/ RouteRequest
    \/ FinalSummary

HDSpec == HDInit /\ [][HDNext]_vars

\* handle_query runs on one thread: a step that can be taken is taken
HDFairSpec == HDSpec /\ WF_vars(HDNext)

(***************************************************************************)
(* Properties of the aggregation pipeline.                                 *)
(***************************************************************************)
FairSpec == Spec /\ WF_vars(Next)

(***************************************************************************)
(* conf.py: summarize_with_azure_openai called on its own.                 *)
(***************************************************************************)
\* the text_content arguments tried: joins and fragments of joins of blocks
TextContents ==
    SeqsUpTo({Separator,
              PageBlock(<<"T">>, <<>>),
              ImageBlock(<<"a",".","p","n","g">>, AnalysisFailed)}, MaxText)
        \cup {<<>>}

\* a caller is about to call summarize_with_azure_openai(text_content)
SummarizerInit ==
    /\ HelpDeskInit
    /\ software_name = <<"Z","o","o","m">>
    /\ pc = "call"
    /\ summarizeInput \in TextContents
    /\ pages = <<>>
    /\ pageIdx = 0
    /\ attachments = <<>>
    /\ attIdx = 0
    /\ units = <<>>
    /\ collecting = FALSE
    /\ finished = {}
    /\ waiter = <<>>
    /\ yielded = {}
    /\ combined_text_parts = <<>>
    /\ origin = <<>>
    /\ completed = <<>>
    /\ snapshot = <<>>
    /\ searchOutcome = [kind |-> "none", results |-> <<>>]
    /\ searchCalls = 0
    /\ listCalls = <<>>
    /\ summarizeCalls = 0
    /\ result = NoResult

\* lines 117-148
SummarizeCall ==
    /\ pc = "call"
    /\ \E o \in SummaryOutcomes :
        LET rc == summarize_with_azure_openai(summarizeInput, o) IN
        /\ summarizeCalls' = IF rc[2] THEN summarizeCalls + 1 ELSE summarizeCalls
        /\ IF rc[1].raised
           THEN pc' = "aborted" /\ UNCHANGED result
           ELSE pc' = "returned" /\ result' = rc[1].value
    /\ UNCHANGED <<hvars, software_name, snapshot, pages, pageIdx, attachments,
                   attIdx, units, collecting, finished, waiter, yielded,
                   combined_text_parts, origin, completed, searchOutcome,
                   searchCalls, listCalls, summarizeInput>>

SummarizerNext ==
    \/ SummarizeCall
    \/ Search
    \/ ProcessPage
    \/ Submit
    \/ CallAsCompleted
    \/ Worker
    \/ Collect
    \/ ExitPool
    \/ Summarize

\* the summarizer called on its own, and called by summarize_software
SummarizerSpec == (SummarizerInit \/ Init) /\ [][SummarizerNext]_vars

(***************************************************************************)
(* conf.py: the pool of line 175 with more units than workers.             *)
(***************************************************************************)
PoolDigits == <<"1", "2", "3", "4", "5", "6", "7", "8", "9">>

\* PoolUnits image attachments of one page; the first has a download link,
\* the others have none, so that their download is requested from an empty
\* url and fails
PoolAttachments ==
    [k \in 1..PoolUnits |->
        [title |-> <<PoolDigits[k], ".", "p", "n", "g">>,
         download |-> IF k = 1 THEN <<"/", "a">> ELSE <<>>]]

\* summarize_software after line 172 returned PoolAttachments for the only
\* page found
PoolInit ==
    /\ HelpDeskInit
    /\ software_name = <<"Z","o","o","m">>
    /\ pc = "submit"
    /\ \E d \in DocPool : d.id = "2" /\ pages = <<d>>
    /\ pageIdx = 1
    /\ attachments = PoolAttachments
    /\ attIdx = 1
    /\ units = << <<>> >>
    /\ collecting = FALSE
    /\ finished = {}
    /\ waiter = <<>>
    /\ yielded = {}
    /\ combined_text_parts =
           <<PageBlock(PageTitle(pages[1]), html_to_text(pages[1].body))>>
    /\ origin = << <<1, 0>> >>
    /\ completed = << <<>> >>
    /\ snapshot = <<>>
    /\ searchOutcome = [kind |-> "ok", results |-> pages]
    /\ searchCalls = 1
    /\ listCalls = <<1>>
    /\ summarizeCalls = 0
    /\ summarizeInput = <<>>
    /\ result = NoResult

\* the submit loop, the workers and the call of as_completed; the steps that
\* follow read the results of the units and leave the pool as it is
PoolNext ==
    \/ Submit
    \/ Worker
    \/ CallAsCompleted

\* a worker thread that can take or finish a unit does so
PoolSpec == PoolInit /\ [][PoolNext]_vars /\ WF_vars(PoolNext)

IsPrefix(q, r) == Len(q) <= Len(r) /\ SubSeq(r, 1, Len(q)) = q

\* the enrichment of page p has been left
PageFinished(p) ==
    /\ p \in 1..Len(units)
    /\ p < pageIdx \/ pc \in {"summarize", "done"}

\* corpus positions holding the caption block of unit u of page p
Entries(p, u) == {i \in 1..Len(origin) : origin[i] = <<p, u>>}

AllDone(p) == \A u \in 1..Len(units[p]) : units[p][u].state = "done"

DownloadFailed(un) == un.state = "done" /\ un.dlOut = "fail"
DescribeFailed(un) == un.state = "done" /\ un.dlOut = "ok" /\ un.descOut = "error"
UnitFailed(un) == DownloadFailed(un) \/ DescribeFailed(un)
UnitSucceeded(un) ==
    un.state = "done" /\ un.dlOut = "ok"
        /\ un.descOut \in {"nocaptions", "emptytext", "text"}

\* position of unit u in the completion order of page p
CompletionPos(p, u) == CHOOSE k \in 1..Len(completed[p]) : completed[p][k] = u

\* C1: when the search yields no document, the run returns the no-pages
\* message for its keyword, and neither the summarization service nor any
\* attachment listing, download or describe call is made.
C1_NoPagesMessage ==
    (searchCalls > 0 /\ pages = <<>>) =>
        /\ pc = "done"
        /\ result = NoPagesMsg(software_name)
        /\ summarizeCalls = 0
        /\ listCalls = <<>>
        /\ units = <<>>

C1_Witness ==
    /\ searchOutcome.kind = "ok"
    /\ pages = <<>>
    /\ pc = "done"
    /\ result = NoPagesMsg(software_name)

ExpectedBlock(un) ==
    ImageBlock(un.title,
               IF un.descOut = "text" THEN CaptionOf(un.link) ELSE NoDescription)

C4_RunAlwaysReturns ==
    [](pc # "aborted") /\ <>(pc = "done" /\ result # NoResult)

C4_Witness ==
    /\ pc = "done"
    /\ result = SummaryError
    /\ searchOutcome.kind = "ok"
    /\ \E p \in 1..Len(units) : \E u, v \in 1..Len(units[p]) :
           DownloadFailed(units[p][u]) /\ DescribeFailed(units[p][v])

\* C5 as stated: the caption block of a failed unit, download or describe,
\* carries "Failed to analyze image '<title>'." with the unit's own title.
C5_Original ==
    \A i \in 1..Len(origin) :
        LET p == origin[i][1]
            u == origin[i][2] IN
        (u # 0 /\ UnitFailed(units[p][u])) =>
            combined_text_parts[i] =
                ImageBlock(units[p][u].title, FailedToAnalyze(units[p][u].title))

\* C5 amended: the caption block of a unit whose download failed carries
\* "Failed to analyze image '<title>'." with the unit's own title; the block
\* of a unit whose describe call failed carries "Image analysis failed.".
C5_FailureCaptions ==
    /\ \A i \in 1..Len(origin) :
        LET p == origin[i][1]
            u == origin[i][2] IN
        /\ (u # 0 /\ DownloadFailed(units[p][u])) =>
               combined_text_parts[i] =
                   ImageBlock(units[p][u].title, FailedToAnalyze(units[p][u].title))
        /\ (u # 0 /\ DescribeFailed(units[p][u])) =>
               combined_text_parts[i] = ImageBlock(units[p][u].title, AnalysisFailed)
    /\ \A p \in 1..Len(units) : PageFinished(p) =>
           \A u \in 1..Len(units[p]) : UnitFailed(units[p][u]) => Entries(p, u) # {}

C5_Witness ==
    \E i, j \in 1..Len(origin) :
        /\ origin[i][2] # 0 /\ DownloadFailed(units[origin[i][1]][origin[i][2]])
        /\ origin[j][2] # 0 /\ DescribeFailed(units[origin[j][1]][origin[j][2]])

\* C6: while a unit of a page is pending or running, no attachment listing
\* or unit of a later page has started and the summarizer has not been
\* called; a page is left only when each of its units has run to its end.
C6_PagesSequential ==
    /\ \A p \in 1..Len(units) : \A k \in 1..Len(listCalls) :
           p < listCalls[k] => AllDone(p)
    /\ \A p, q \in 1..Len(units) :
           (p < q /\ \E v \in 1..Len(units[q]) : units[q][v].dlCalls > 0) => AllDone(p)
    /\ summarizeCalls > 0 => \A p \in 1..Len(units) : AllDone(p)
    /\ \A p \in 1..Len(units) : PageFinished(p) =>
           \A u \in 1..Len(units[p]) :
               units[p][u].state = "done" /\ units[p][u].dlCalls = 1

C6_Witness ==
    /\ Len(units) = 2
    /\ Len(units[1]) = 1 /\ units[1][1].state = "done"
    /\ Len(units[2]) = 1 /\ units[2][1].state = "download"

\* the corpus holds, for the pages in fetch order, the text block of the
\* page followed by caption blocks of that page only
CorpusLayout ==
    /\ Len(combined_text_parts) = Len(origin)
    /\ \A i, j \in 1..Len(origin) : i < j => origin[i][1] <= origin[j][1]
    /\ \A i \in 1..Len(origin) :
           origin[i][2] = 0 <=> (i = 1 \/ origin[i - 1][1] # origin[i][1])
    /\ \A k \in 1..Len(listCalls) : Cardinality(Entries(k, 0)) = 1
    /\ \A i \in 1..Len(origin) :
        LET p == origin[i][1]
            u == origin[i][2] IN
        combined_text_parts[i] =
            IF u = 0
            THEN PageBlock(PageTitle(pages[p]), html_to_text(pages[p].body))
            ELSE ImageBlock(units[p][u].title, units[p][u].value)

\* C7 as stated: the layout above, the caption blocks of a page being in the
\* order in which its units completed.
C7_Original ==
    /\ CorpusLayout
    /\ \A i, j \in 1..Len(origin) :
           (i < j /\ origin[i][1] = origin[j][1] /\ origin[i][2] # 0) =>
               CompletionPos(origin[i][1], origin[i][2])
                   < CompletionPos(origin[j][1], origin[j][2])

\* C7 amended: the layout above; the caption blocks of the units that had
\* finished when the collection of the page began come first, in no
\* particular order, and the blocks of the other units follow in the order in
\* which those units completed.
C7_CorpusOrder ==
    /\ CorpusLayout
    /\ \A i, j \in 1..Len(origin) :
           (i < j /\ origin[i][1] = origin[j][1] /\ origin[i][2] # 0) =>
               LET p == origin[i][1]
                   a == origin[i][2]
                   b == origin[j][2] IN
               /\ b \in snapshot[p] => a \in snapshot[p]
               /\ (a \notin snapshot[p] /\ b \notin snapshot[p]) =>
                      CompletionPos(p, a) < CompletionPos(p, b)

C7_Witness ==
    /\ Len(origin) = 4
    /\ origin = <<<<1, 0>>, <<1, 2>>, <<1, 1>>, <<2, 0>>>>
    /\ snapshot[1] = {}

\* C8: when the search call fails, search_confluence returns an empty list
\* and the run ends as when nothing is found: the no-pages message, one
\* search call and no other external call.
C8_SearchFailureIsNoPages ==
    searchOutcome.kind = "error" =>
        /\ pages = <<>>
        /\ pc = "done"
        /\ result = NoPagesMsg(software_name)
        /\ searchCalls = 1
        /\ summarizeCalls = 0 /\ listCalls = <<>> /\ units = <<>>

C8_Witness ==
    /\ searchOutcome.kind = "error"
    /\ pc = "done"
    /\ result = NoPagesMsg(software_name)

\* text is the entries of parts with a separator between consecutive entries
Interleaved(text, parts) ==
    IF Len(parts) = 0 THEN text = <<>>
    ELSE /\ Len(text) = 2 * Len(parts) - 1
         /\ \A i \in 1..Len(parts) : text[2 * i - 1] = parts[i]
         /\ \A i \in 1..(Len(parts) - 1) : text[2 * i].kind = "sep"

\* what summarize_with_azure_openai can return once the service was called
SummarizerReturns ==
    { Str("An error occurred while generating the summary.", <<>>, ""),
      Str("", <<"S","u","m">>, ""),
      Str("", <<>>, "") }

\* the text block of the document "Zoom Setup" of DocPool
ZoomSetupBlock ==
    [kind |-> "page", title |-> <<"Z","o","o","m"," ","S","e","t","u","p">>,
     text |-> <<"H","i","\n","y","o">>, desc |-> EmptyStr]

\* C15: when the search returns at least one document, the summarizer is
\* called once, after every document has been processed, with the whole
\* corpus joined by separators, and the run returns what the summarizer
\* returned; a document without image units contributes its text block only.
C15_SummarizerCalledOnce ==
    pages # <<>> =>
        /\ summarizeCalls <= 1
        /\ summarizeCalls = 1 => pc = "done"
        /\ pc = "done" =>
            /\ summarizeCalls = 1
            /\ Len(listCalls) = Len(pages)
            /\ \A p \in 1..Len(pages) : PageFinished(p) /\ Cardinality(Entries(p, 0)) = 1
            /\ Interleaved(summarizeInput, combined_text_parts)
            /\ result \in SummarizerReturns
        /\ \A p \in 1..Len(units) : (PageFinished(p) /\ units[p] = <<>>) =>
            /\ Cardinality({i \in 1..Len(origin) : origin[i][1] = p}) = 1
            /\ pages[p].id = "1" =>
                   \A i \in Entries(p, 0) : combined_text_parts[i] = ZoomSetupBlock

C15_Witness ==
    /\ software_name = <<"Z","o","o","m">>
    /\ Len(pages) = 1 /\ pages[1].id = "1"
    /\ attachments = <<>>
    /\ pc = "done"
    /\ summarizeInput = <<ZoomSetupBlock>>
    /\ result = Str("", <<"S","u","m">>, "")

\* C17: the search is called at most once, the attachments of a page are
\* listed at most once and in page order, the summarizer is called at most
\* once, each unit downloads at most once (exactly once when it is done) and
\* calls the caption service at most once, and only after its download
\* succeeded.
C17_NoRetry ==
    /\ searchCalls <= 1
    /\ summarizeCalls <= 1
    /\ \A k \in 1..Len(listCalls) : listCalls[k] = k
    /\ Len(listCalls) <= Len(pages)
    /\ pc = "done" /\ pages # <<>> => Len(listCalls) = Len(pages)
    /\ \A p \in 1..Len(units) : \A u \in 1..Len(units[p]) :
        LET un == units[p][u] IN
        /\ un.dlCalls <= 1
        /\ un.descCalls <= 1
        /\ un.state = "done" => un.dlCalls = 1
        /\ un.descCalls = 1 => un.dlOut = "ok"
        /\ un.dlOut = "ok" => un.descCalls = 1

C17_Witness ==
    /\ pc = "done"
    /\ Len(listCalls) = 2
    /\ \E p, q \in 1..Len(units) :
        /\ \E u \in 1..Len(units[p]) : units[p][u].dlOut = "fail"
        /\ \E v \in 1..Len(units[q]) : units[q][v].descCalls = 1

\* C18: once the search has returned, no step changes the fetched pages;
\* while a page is enriched no step changes its attachment list; a submitted
\* unit keeps its title and link; and every step leaves the corpus as it was
\* or appends to it.
C18_FrameAndAppendOnly ==
    [][ /\ pc # "search" => pages' = pages
        /\ (pc \in {"submit", "collect"} /\ pc' \in {"submit", "collect"}) =>
               attachments' = attachments
        /\ Len(units') >= Len(units)
        /\ \A p \in 1..Len(units) :
               /\ Len(units'[p]) >= Len(units[p])
               /\ \A u \in 1..Len(units[p]) :
                      /\ units'[p][u].title = units[p][u].title
                      /\ units'[p][u].link = units[p][u].link
        /\ IsPrefix(combined_text_parts, combined_text_parts')
      ]_vars

C18_Witness ==
    /\ pc = "done"
    /\ Len(combined_text_parts) = 4
    /\ \E p \in 1..Len(units) : \E u \in 1..Len(units[p]) : UnitFailed(units[p][u])

\* the units of page p that a worker has started and not yet finished
Executing(p) ==
    {u \in 1..Len(units[p]) : units[p][u].dlCalls >= 1 /\ units[p][u].state # "done"}

SomeOutstanding ==
    \E p \in 1..Len(units) : \E u \in 1..Len(units[p]) : units[p][u].state # "done"

NoneOutstanding ==
    \A p \in 1..Len(units) : \A u \in 1..Len(units[p]) : units[p][u].state = "done"

\* C16: at no time are more than five units of a page being executed; a
\* queued unit is not started while five are being executed; and every
\* submitted unit is executed in the end.
C16_BoundedPool ==
    /\ [](\A p \in 1..Len(units) : Cardinality(Executing(p)) <= 5)
    /\ [][\A p \in 1..Len(units) : \A u \in 1..Len(units[p]) :
              (units[p][u].state = "queued" /\ Cardinality(Executing(p)) = 5)
                  => units'[p][u].state = "queued"]_vars
    /\ (SomeOutstanding ~> NoneOutstanding)

C16_Witness ==
    /\ Len(units[1]) = 6
    /\ Cardinality(Executing(1)) = 5
    /\ units[1][1].state = "describe"
    /\ units[1][6].state = "queued"

\* C19: called with an empty or whitespace-only text the summarizer returns
\* "No content available to summarize." and does not call the service; in a
\* run of summarize_software that found documents every corpus entry is a
\* text block or a caption block, the text given to the summarizer holds a
\* page block, and the service is called.
C19_BlankShortCircuit ==
    /\ pc = "returned" =>
           IF \A i \in 1..Len(summarizeInput) : summarizeInput[i].kind = "sep"
           THEN result = NoContent /\ summarizeCalls = 0
           ELSE summarizeCalls = 1 /\ result \in SummarizerReturns
    /\ \A i \in 1..Len(combined_text_parts) :
           combined_text_parts[i].kind \in {"page", "image"}
    /\ (pc = "done" /\ pages # <<>>) =>
           /\ \E i \in 1..Len(summarizeInput) : summarizeInput[i].kind = "page"
           /\ summarizeCalls = 1
           /\ result \in SummarizerReturns

C19_Witness ==
    /\ pc = "returned"
    /\ summarizeInput = <<Separator, Separator>>
    /\ result = NoContent
    /\ summarizeCalls = 0

(***************************************************************************)
(* Properties of the intake workflow.                                      *)
(***************************************************************************)
Visited(stage) == \E k \in 1..Len(hd_trace) : hd_trace[k] = stage

\* C9: when the parsed Missing value is not "none", compared without case,
\* the run has ended with the missing-information message and neither the
\* verification call, nor a routing handler, nor the final-summary call has
\* been made.
C9_MissingInfoStops ==
    (Visited("Classified") /\ Lower(missing) # S_none) =>
        /\ hd_pc = "done"
        /\ hd_result = MissingInformationMsg(missing)
        /\ verifyCalls = 0
        /\ passwordCalls = 0 /\ vdiCalls = 0
        /\ finalCalls = 0
        /\ ~Visited("Verified") /\ ~Visited("Routed")

C9_Witness ==
    /\ hd_pc = "done"
    /\ missing = <<"N","o","n","e",".">>
    /\ hd_result = MissingInformationMsg(missing)

\* C10: when the verification outcome contains "missing", in any case and
\* anywhere, the run has ended with the verification-issue message and no
\* routing handler nor the final-summary call has been made; when it does
\* not, the run goes on to routing.
C10_VerificationGate ==
    Visited("Verified") =>
        IF Contains(Lower(verification_outcome), S_missing)
        THEN /\ hd_pc = "done"
             /\ hd_result = VerificationIssueMsg(verification_outcome)
             /\ passwordCalls = 0 /\ vdiCalls = 0
             /\ finalCalls = 0
             /\ ~Visited("Routed")
        ELSE hd_pc = "route" \/ Visited("Routed")

C10_Witness ==
    /\ hd_pc = "done"
    /\ Visited("VerificationFailed")
    /\ verification_outcome = <<"M","I","S","S","I","N","G",":"," ","i","d">>

MissingInfoPath == <<"Received", "Classified", "MissingInfo">>
VerificationFailedPath == <<"Received", "Classified", "Verified", "VerificationFailed">>
SummarizedPath ==
    <<"Received", "Classified", "Verified", "Routed", "Resolved", "Summarized">>

HDPathInvariant ==
    /\ \E path \in {MissingInfoPath, VerificationFailedPath, SummarizedPath} :
           IsPrefix(hd_trace, path)
    /\ classifyCalls <= 1 /\ verifyCalls <= 1 /\ finalCalls <= 1
    /\ Visited("Classified") => classifyCalls = 1
    /\ Visited("Verified") => verifyCalls = 1
    /\ Visited("Summarized") => finalCalls = 1
    /\ hd_pc = "done" =>
        \/ /\ hd_trace = MissingInfoPath
           /\ Lower(missing) # S_none
           /\ hd_result = MissingInformationMsg(missing)
        \/ /\ hd_trace = VerificationFailedPath
           /\ Lower(missing) = S_none
           /\ Contains(Lower(verification_outcome), S_missing)
           /\ hd_result = VerificationIssueMsg(verification_outcome)
        \/ /\ hd_trace = SummarizedPath
           /\ Lower(missing) = S_none
           /\ ~Contains(Lower(verification_outcome), S_missing)
           /\ hd_result.pre = "" /\ hd_result.post = ""

\* C11: the stages of a run are a prefix of one of the three paths Received,
\* Classified, MissingInfo; Received, Classified, Verified,
\* VerificationFailed; Received, Classified, Verified, Routed, Resolved,
\* Summarized; the classification, verification and final-summary calls are
\* made at most once each; the run ends, and when it returns it has followed
\* one whole path and returns that path's outcome.
C11_LinearWorkflow ==
    []HDPathInvariant /\ <>(hd_pc \in {"done", "aborted"})

C11_Witness ==
    /\ hd_pc = "done"
    /\ hd_trace = SummarizedPath
    /\ classifyCalls = 1 /\ verifyCalls = 1 /\ finalCalls = 1

\* C12: when the classification, verification or final-summary call raises,
\* the run is aborted at that stage, has no result string, and no call of a
\* later stage has been made; a run is aborted for no other reason.
C12_StageFailureAborts ==
    /\ hd_pc = "aborted" <=> hd_error # <<>>
    /\ hd_error # <<>> =>
        /\ Len(hd_error) = 1
        /\ hd_result = NoResult
        /\ hd_error[1] = "classify" =>
               /\ hd_trace = <<"Received">>
               /\ verifyCalls = 0 /\ passwordCalls = 0 /\ vdiCalls = 0 /\ finalCalls = 0
        /\ hd_error[1] = "verify" =>
               /\ hd_trace = <<"Received", "Classified">>
               /\ verifyCalls = 1
               /\ passwordCalls = 0 /\ vdiCalls = 0 /\ finalCalls = 0
        /\ hd_error[1] = "summary" =>
               /\ hd_trace = <<"Received", "Classified", "Verified", "Routed", "Resolved">>
               /\ finalCalls = 1

C12_Witness ==
    /\ hd_pc = "aborted"
    /\ hd_error = <<"verify">>
    /\ hd_result = NoResult

\* C13: a routed run has exactly one resolution: the password-reset response
\* when the category, lower-cased, is "password reset", the VDI response when
\* it is "vdi resource increase", and the forwarding message for every other
\* category; only the selected handler has been called.
C13_RoutingByCategory ==
    Visited("Routed") =>
        /\ Lower(category) = S_password_reset =>
               resolution = PasswordResetResponse /\ passwordCalls = 1 /\ vdiCalls = 0
        /\ Lower(category) = S_vdi_resource_increase =>
               resolution = VDIResponse /\ passwordCalls = 0 /\ vdiCalls = 1
        /\ Lower(category) \notin {S_password_reset, S_vdi_resource_increase} =>
               resolution = ForwardedResponse /\ passwordCalls = 0 /\ vdiCalls = 0

C13_Witness ==
    /\ Visited("Routed")
    /\ category = <<"P","a","s","s","w","o","r","d"," ","R","e","s","e","t">>
    /\ resolution = PasswordResetResponse

HasLine(response, prefix) ==
    \E k \in 1..Len(SplitLines(response)) :
        StartsWith(Lower(SplitLines(response)[k]), prefix)

\* C14: when no line of the classification response starts with "missing:",
\* in any case, Missing is "None" and the run goes on to the verification
\* call; when no line starts with "category:", the category is
\* "Other IT Support".
C14_ParseDefaults ==
    Visited("Classified") =>
        /\ ~HasLine(classification_response, <<"m","i","s","s","i","n","g",":">>) =>
               /\ missing = <<"N","o","n","e">>
               /\ ~Visited("MissingInfo")
               /\ hd_pc = "verify" \/ verifyCalls = 1
        /\ ~HasLine(classification_response, <<"c","a","t","e","g","o","r","y",":">>) =>
               category = <<"O","t","h","e","r"," ","I","T"," ","S","u","p","p","o","r","t">>

C14_Witness ==
    /\ Visited("Verified")
    /\ ~HasLine(classification_response, <<"m","i","s","s","i","n","g",":">>)
    /\ HasLine(classification_response, <<"c","a","t","e","g","o","r","y",":">>)
    /\ missing = <<"N","o","n","e">>

====
